---- MODULE Spec2Model ----
(***************************************************************************)
(* Model of the news aggregator: the per-source file cache, the SQLite     *)
(* article store, the feed fetch outcome, the extractive summarizer and    *)
(* the two aggregation passes (fetch_all_news, fetch_news_by_region).      *)
(*                                                                         *)
(* Texts (descriptions, summaries) are sequences of one-character strings. *)
(* Titles, links, source and region names are strings.  Region names of    *)
(* the catalog are transliterated to ASCII.  Time is in whole seconds.     *)
(***************************************************************************)
EXTENDS Integers, Sequences, FiniteSets, TLC

VARIABLES now, ticks, passes, cache, store, logs, stats, last, threads

vars == <<now, ticks, passes, cache, store, logs, stats, last, threads>>

(***************************************************************************)
(* Bounds of the exploration.                                              *)
(***************************************************************************)
MaxTicks == 1
MaxPasses == 2

(***************************************************************************)
(* config.py                                                               *)
(***************************************************************************)
CACHE_DURATION == 300
MAX_ITEMS_PER_SOURCE == 5
MAX_ITEMS_PER_REGION == 20

\* The catalog, reduced to two regions of two sources each.  "US" stands for
\* a region the sample data does not know, "IntlOrg" for the one region that
\* is both configured and present in the sample data.
FEED_SOURCES_BY_REGION ==
    << [region |-> "US",
        sources |-> << [name |-> "CNN", flag |-> "us"],
                       [name |-> "NPR", flag |-> "us"] >>],
       [region |-> "IntlOrg",
        sources |-> << [name |-> "Reuters", flag |-> "globe"],
                       [name |-> "UN News", flag |-> "un"] >>] >>

Regions == {FEED_SOURCES_BY_REGION[i].region : i \in DOMAIN FEED_SOURCES_BY_REGION}

RECURSIVE FlattenFrom(_)
FlattenFrom(i) ==
    IF i > Len(FEED_SOURCES_BY_REGION) THEN <<>>
    ELSE LET e == FEED_SOURCES_BY_REGION[i]
         IN  [k \in 1..Len(e.sources) |->
                 [name |-> e.sources[k].name, flag |-> e.sources[k].flag,
                  region |-> e.region]] \o FlattenFrom(i + 1)

\* All sources in configuration order, each with its region and flag.
SourceList == FlattenFrom(1)

\* FEED_SOURCES: the flattened (name, url) list of the flat aggregation.
FEED_SOURCES == [k \in 1..Len(SourceList) |-> SourceList[k].name]

Sources == {FEED_SOURCES[k] : k \in DOMAIN FEED_SOURCES}

total_sources == Len(SourceList)

(***************************************************************************)
(* Small sequence helpers.                                                 *)
(***************************************************************************)
Min(a, b) == IF a < b THEN a ELSE b

\* s[:n] of Python.
Take(s, n) == SubSeq(s, 1, Min(n, Len(s)))

RECURSIVE SumLen(_, _)
SumLen(f, S) ==
    IF S = {} THEN 0
    ELSE LET x == CHOOSE y \in S : TRUE IN Len(f[x]) + SumLen(f, S \ {x})

(***************************************************************************)
(* news_scraper.py: text summarizer.  A text is a sequence of characters.  *)
(***************************************************************************)
WordChars == {"a", "b", "c", "A"}
TermChars == {".", "!", "?"}
SpaceChars == {" "}

\* str.lower() on one character.
Lower(c) == IF c = "A" THEN "a" ELSE c

\* Position of the first ">" at or after i, 0 when there is none.
RECURSIVE FirstGt(_, _)
FirstGt(t, i) ==
    IF i > Len(t) THEN 0
    ELSE IF t[i] = ">" THEN i ELSE FirstGt(t, i + 1)

\* re.sub(r'<[^>]+>', '', text), scanning from position i.
RECURSIVE StripFrom(_, _)
StripFrom(t, i) ==
    IF i > Len(t) THEN <<>>
    ELSE IF t[i] = "<" /\ FirstGt(t, i + 1) > i + 1
         THEN StripFrom(t, FirstGt(t, i + 1) + 1)
         ELSE <<t[i]>> \o StripFrom(t, i + 1)

clean_html_tags(text) == StripFrom(text, 1)

\* End of the whitespace run that starts at i.
RECURSIVE SpaceEnd(_, _)
SpaceEnd(t, i) ==
    IF i + 1 <= Len(t) /\ t[i + 1] \in SpaceChars THEN SpaceEnd(t, i + 1) ELSE i

\* re.split(r'(?<=[.!?])\s+', text): cur is the piece being collected.
RECURSIVE SplitFrom(_, _, _)
SplitFrom(t, i, cur) ==
    IF i > Len(t) THEN <<cur>>
    ELSE IF t[i] \in SpaceChars /\ i > 1 /\ t[i - 1] \in TermChars
         THEN <<cur>> \o SplitFrom(t, SpaceEnd(t, i) + 1, <<>>)
         ELSE SplitFrom(t, i + 1, Append(cur, t[i]))

split_sentences(text) == SplitFrom(text, 1, <<>>)

\* re.findall(r'\b\w+\b', text.lower()): the maximal runs of word characters.
RECURSIVE WordsFrom(_, _, _)
WordsFrom(t, i, cur) ==
    IF i > Len(t) THEN (IF cur = <<>> THEN <<>> ELSE <<cur>>)
    ELSE IF t[i] \in WordChars
         THEN WordsFrom(t, i + 1, Append(cur, Lower(t[i])))
         ELSE (IF cur = <<>> THEN <<>> ELSE <<cur>>) \o WordsFrom(t, i + 1, <<>>)

find_words(text) == WordsFrom(text, 1, <<>>)

\* Counter(words)[w]
Freq(words, w) == Cardinality({k \in DOMAIN words : words[k] = w})

RECURSIVE SumFreq(_, _, _)
SumFreq(all, ws, k) ==
    IF k > Len(ws) THEN 0 ELSE Freq(all, ws[k]) + SumFreq(all, ws, k + 1)

\* The score of one sentence: the sum of the whole-text frequencies of its words.
sentence_score(all, sentence) == SumFreq(all, find_words(sentence), 1)

\* sentences.index(x): the first position holding x.
IndexOf(sentences, x) ==
    CHOOSE k \in DOMAIN sentences :
        /\ sentences[k] = x
        /\ \A j \in 1..(k - 1) : sentences[j] # x

\* Positions 1..n ordered as Python's stable sorted(..., key) orders them:
\* by key, equal keys keeping their earlier order.  Insertion into a list
\* already sorted keeps stability when the new element goes after its equals.
RECURSIVE InsertStable(_, _, _, _)
InsertStable(lst, x, key, k) ==
    IF k > Len(lst) THEN Append(lst, x)
    ELSE IF key[x] < key[lst[k]]
         THEN SubSeq(lst, 1, k - 1) \o <<x>> \o SubSeq(lst, k, Len(lst))
         ELSE InsertStable(lst, x, key, k + 1)

RECURSIVE StableSort(_, _)
StableSort(lst, key) ==
    IF lst = <<>> THEN <<>>
    ELSE InsertStable(StableSort(SubSeq(lst, 1, Len(lst) - 1), key),
                      lst[Len(lst)], key, 1)

RECURSIVE JoinSpace(_, _, _)
JoinSpace(sentences, order, k) ==
    IF k > Len(order) THEN <<>>
    ELSE (IF k > 1 THEN <<" ">> ELSE <<>>) \o sentences[order[k]]
         \o JoinSpace(sentences, order, k + 1)

\* str.strip() for the whitespace of the model's alphabet.
RECURSIVE StripSpace(_)
StripSpace(t) ==
    IF t = <<>> THEN t
    ELSE IF t[1] \in SpaceChars THEN StripSpace(Tail(t))
    ELSE IF t[Len(t)] \in SpaceChars THEN StripSpace(SubSeq(t, 1, Len(t) - 1))
    ELSE t

\* sentences = re.split(..., clean_html_tags(text))
sentences_of(text) == split_sentences(clean_html_tags(text))

\* The scores list, by position: scores[k] is the score of sentence k.
scores_of(text) ==
    LET sentences == sentences_of(text)
        words == find_words(clean_html_tags(text))
    IN  [k \in 1..Len(sentences) |-> sentence_score(words, sentences[k])]

\* A selection that breaks ties towards the later sentence.
top_sentences_later_ties(text, num_sentences) ==
    LET n == Len(sentences_of(text))
        score == scores_of(text)
    IN  Take(StableSort([k \in 1..n |-> n + 1 - k], [k \in 1..n |-> 0 - score[k]]),
             num_sentences)

\* sorted(scores, key=lambda x: x[0], reverse=True)[:num_sentences], as the
\* positions of the entries it keeps: stable, descending by score.
top_sentences(text, num_sentences) ==
    LET n == Len(sentences_of(text))
        score == scores_of(text)
    IN  Take(StableSort([k \in 1..n |-> k], [k \in 1..n |-> 0 - score[k]]),
             num_sentences)

\* sorted(top_sentences, key=lambda x: sentences.index(x[1])): the key of an
\* entry is the first position holding its text.
sorted_top(text, num_sentences) ==
    LET sentences == sentences_of(text)
    IN  StableSort(top_sentences(text, num_sentences),
                   [k \in 1..Len(sentences) |-> IndexOf(sentences, sentences[k])])

\* A summarizer that returns the text unchanged only below num_sentences.
summarize_text_below(text, num_sentences) ==
    LET sentences == sentences_of(text)
    IN  IF Len(sentences) < num_sentences THEN clean_html_tags(text)
        ELSE StripSpace(JoinSpace(sentences, sorted_top(text, num_sentences), 1))

summarize_text(text, num_sentences) ==
    LET sentences == sentences_of(text)
    IN  IF Len(sentences) <= num_sentences THEN clean_html_tags(text)
        ELSE StripSpace(JoinSpace(sentences, sorted_top(text, num_sentences), 1))

(***************************************************************************)
(* sample_data.py.  Region names: NorthAmerica, Europe, AsiaPacific,       *)
(* MiddleEast and IntlOrg; only IntlOrg is also a configured region.       *)
(***************************************************************************)
SampleItem(region, flag, source, n) ==
    [region |-> region, flag |-> flag, source |-> source,
     title |-> "sample" \o ToString(n),
     link |-> "https://example.com/news" \o ToString(n),
     summary |-> <<"c", ".">>]

SAMPLE_NEWS_DATA ==
    [r \in {"NorthAmerica", "Europe", "AsiaPacific", "MiddleEast", "IntlOrg"} |->
        CASE r = "NorthAmerica" ->
                << SampleItem(r, "us", "CNN", 1), SampleItem(r, "us", "NPR", 2),
                   SampleItem(r, "us", "AP News", 3) >>
          [] r = "Europe" ->
                << SampleItem(r, "gb", "BBC", 4), SampleItem(r, "gb", "The Guardian", 5),
                   SampleItem(r, "de", "DW", 6), SampleItem(r, "fr", "France 24", 7) >>
          [] r = "AsiaPacific" ->
                << SampleItem(r, "jp", "NHK World", 8), SampleItem(r, "sg", "CNA", 9) >>
          [] r = "MiddleEast" ->
                << SampleItem(r, "qa", "Al Jazeera", 10) >>
          [] r = "IntlOrg" ->
                << SampleItem(r, "globe", "Reuters", 11),
                   SampleItem(r, "un", "UN News", 12) >>]

\* get_sample_data_by_region(region_name): the whole mapping without an
\* argument, else SAMPLE_NEWS_DATA.get(region_name, []).
get_sample_data_by_region(region_name) ==
    IF region_name \in DOMAIN SAMPLE_NEWS_DATA THEN SAMPLE_NEWS_DATA[region_name]
    ELSE <<>>

(***************************************************************************)
(* news_scraper.py: per-source cache file.                                 *)
(***************************************************************************)
NoFile == [exists |-> FALSE, mtime |-> 0, content |-> <<>>]

\* Variant: an entry whose age equals the duration still counts as valid.
is_cache_valid_inclusive(c, source, t) ==
    IF ~c[source].exists THEN FALSE
    ELSE (t - c[source].mtime) <= CACHE_DURATION

is_cache_valid(c, source, t) ==
    IF ~c[source].exists THEN FALSE
    ELSE (t - c[source].mtime) < CACHE_DURATION

load_from_cache(c, source) ==
    IF c[source].exists THEN c[source].content ELSE <<>>

save_to_cache(c, source, items, t) ==
    [c EXCEPT ![source] = [exists |-> TRUE, mtime |-> t, content |-> items]]

(***************************************************************************)
(* news_scraper.py: outcome of fetch_feed.  A feed is the sequence of      *)
(* well-formed items fetch_feed returns; <<>> is every kind of failure.    *)
(***************************************************************************)
Description(n) ==
    CASE n = 1 -> <<"a", ".">>
      [] n = 2 -> <<"<", "b", ">">>
      [] n = 3 -> <<"a", " ", "c", ".", " ", "a", " ", "b", ".", " ",
                    "a", " ", "c", " ", "b", " ", "a", ".">>
      [] OTHER -> <<"b", ".">>

NewsItem(n) ==
    [title |-> "t" \o ToString(n), link |-> "l" \o ToString(n),
     description |-> Description(n)]

\* The feeds a source may answer with: a failure (every source), one item,
\* and more items than MAX_ITEMS_PER_SOURCE.
OneItemFeed == << NewsItem(1) >>

LongFeed == [k \in 1..(MAX_ITEMS_PER_SOURCE + 1) |-> NewsItem(k)]

FeedOutcomes(source) ==
    CASE source = "CNN" -> {<<>>, LongFeed}
      [] source = "Reuters" -> {<<>>, OneItemFeed, LongFeed}
      [] OTHER -> {<<>>, OneItemFeed}

\* The feed assignments of one pass: a source whose cache is valid is not
\* fetched, so its feed is left out (<<>>).
FeedChoices(c, t) ==
    {f \in [Sources -> UNION {FeedOutcomes(s) : s \in Sources}] :
        \A s \in Sources :
            /\ f[s] \in FeedOutcomes(s)
            /\ is_cache_valid(c, s, t) => f[s] = <<>>}

\* summarize_text(description, num_sentences=2) of the descriptions above,
\* computed once.
Descriptions == {Description(n) : n \in 1..(MAX_ITEMS_PER_SOURCE + 1)}

Summary2 == [d \in Descriptions |-> summarize_text(d, 2)]

summary_of(description) ==
    IF description \in Descriptions THEN Summary2[description]
    ELSE summarize_text(description, 2)

(***************************************************************************)
(* database.py.  The store is the sequence of rows of news_articles in     *)
(* rowid order.  A database mode says how the engine answers during one    *)
(* pass: "ok"; "exec_error" (every statement raises sqlite3.Error);        *)
(* "open_error" (sqlite3.connect raises); "open_once" (the first connect   *)
(* of the pass raises, the later ones succeed).                            *)
(***************************************************************************)
DbModes == {"ok", "exec_error", "open_error", "open_once"}

\* get_db_connection succeeds: conns counts the connects made so far.
db_opens(mode, conns) ==
    /\ mode # "open_error"
    /\ ~(mode = "open_once" /\ conns = 0)

\* The digest input of generate_article_hash; MD5 is taken as injective on it.
generate_article_hash(title, link, source) ==
    title \o "|" \o link \o "|" \o source

HashIds(rows) == {rows[k].hash_id : k \in DOMAIN rows}

NextBatch(rows) ==
    IF rows = <<>> THEN 1 ELSE rows[Len(rows)].batch + 1

\* The loop of insert_articles_batch over articles[k..]: INSERT OR IGNORE,
\* counting the rows actually added.
RECURSIVE InsertRows(_, _, _, _, _, _)
InsertRows(rows, articles, k, t, b, count) ==
    IF k > Len(articles) THEN [store |-> rows, count |-> count]
    ELSE LET a == articles[k]
             h == generate_article_hash(a.title, a.link, a.source)
             row == [hash_id |-> h, region |-> a.region, country |-> a.country,
                     source |-> a.source, flag_emoji |-> a.flag,
                     title |-> a.title, link |-> a.link,
                     description |-> a.description, summary |-> a.summary,
                     fetch_date |-> t, batch |-> b]
         IN  IF h \in HashIds(rows)
             THEN InsertRows(rows, articles, k + 1, t, b, count)
             ELSE InsertRows(Append(rows, row), articles, k + 1, t, b, count + 1)

\* insert_articles_batch on world w (the fields store, logs, stats, conns):
\* the new world, the count returned, and whether it raised.
insert_articles_batch(w, articles, t, mode) ==
    LET w1 == [w EXCEPT !.conns = @ + 1]
    IN  IF ~db_opens(mode, w.conns)
        THEN [w |-> w1, count |-> 0, raised |-> TRUE]
        ELSE IF mode = "exec_error"
        THEN [w |-> w1, count |-> 0, raised |-> FALSE]
        ELSE LET r == InsertRows(w.store, articles, 1, t, NextBatch(w.store), 0)
             IN  [w |-> [w1 EXCEPT !.store = r.store],
                  count |-> r.count, raised |-> FALSE]

\* A recording that counts an error for every outcome.
update_source_stats_all_errors(w, source_name, success, articles_count, error_msg, mode) ==
    LET w1 == [w EXCEPT !.conns = @ + 1]
    IN  IF ~db_opens(mode, w.conns)
        THEN [w |-> w1, raised |-> TRUE]
        ELSE IF mode = "exec_error"
        THEN [w |-> w1, raised |-> FALSE]
        ELSE [w |-> [w1 EXCEPT
                       !.stats[source_name] =
                           [fetch_count |-> @.fetch_count + 1,
                            error_count |-> @.error_count + 1],
                       !.logs = Append(@, [source_name |-> source_name,
                                           status |-> IF success THEN "success" ELSE "error",
                                           articles_count |-> articles_count,
                                           error_message |-> error_msg])],
              raised |-> FALSE]

\* update_source_stats: the counters of news_sources and one fetch_logs row.
update_source_stats(w, source_name, success, articles_count, error_msg, mode) ==
    LET w1 == [w EXCEPT !.conns = @ + 1]
    IN  IF ~db_opens(mode, w.conns)
        THEN [w |-> w1, raised |-> TRUE]
        ELSE IF mode = "exec_error"
        THEN [w |-> w1, raised |-> FALSE]
        ELSE [w |-> [w1 EXCEPT
                       !.stats[source_name] =
                           [fetch_count |-> @.fetch_count + 1,
                            error_count |-> @.error_count + (IF success THEN 0 ELSE 1)],
                       !.logs = Append(@, [source_name |-> source_name,
                                           status |-> IF success THEN "success" ELSE "error",
                                           articles_count |-> articles_count,
                                           error_message |-> error_msg])],
              raised |-> FALSE]

HOURS_24 == 86400

\* ORDER BY fetch_date DESC, created_at DESC among the rows at positions S:
\* the batch of a later call has the later fetch_date; rows of one batch
\* share both dates and come in rowid order.
RowBefore(rows, i, j) ==
    \/ rows[i].fetch_date > rows[j].fetch_date
    \/ /\ rows[i].fetch_date = rows[j].fetch_date
       /\ \/ rows[i].batch > rows[j].batch
          \/ rows[i].batch = rows[j].batch /\ i < j

RECURSIVE OrderRows(_, _)
OrderRows(rows, S) ==
    IF S = {} THEN <<>>
    ELSE LET first == CHOOSE i \in S : \A j \in S \ {i} : RowBefore(rows, i, j)
         IN  <<rows[first]>> \o OrderRows(rows, S \ {first})

\* get_all_articles_by_region(hours_back): region -> rows, regions with rows only.
get_all_articles_by_region(rows, t, hours_back_s) ==
    LET cutoff == t - hours_back_s
        recent == {k \in DOMAIN rows : rows[k].fetch_date > cutoff}
        regs == {rows[k].region : k \in recent}
    IN  [r \in regs |-> OrderRows(rows, {k \in recent : rows[k].region = r})]

SECONDS_PER_HOUR == 3600
SECONDS_PER_DAY == 86400

\* Rows 1..n of an ordered selection: LIMIT n.
Limit(rows, n) == Take(rows, n)

\* A query that also returns the rows on the cutoff.
get_articles_by_region_inclusive(rows, t, region, limit, hours_back, mode) ==
    IF ~db_opens(mode, 0) THEN [raised |-> TRUE, rows |-> <<>>]
    ELSE IF mode = "exec_error" THEN [raised |-> FALSE, rows |-> <<>>]
    ELSE LET cutoff_time == t - hours_back * SECONDS_PER_HOUR
             hits == {k \in DOMAIN rows :
                        rows[k].region = region /\ rows[k].fetch_date >= cutoff_time}
         IN  [raised |-> FALSE, rows |-> Limit(OrderRows(rows, hits), limit)]

\* get_articles_by_region(region, limit, hours_back) on the stored rows at
\* time t: the connection is opened outside the try block.
get_articles_by_region(rows, t, region, limit, hours_back, mode) ==
    IF ~db_opens(mode, 0) THEN [raised |-> TRUE, rows |-> <<>>]
    ELSE IF mode = "exec_error" THEN [raised |-> FALSE, rows |-> <<>>]
    ELSE LET cutoff_time == t - hours_back * SECONDS_PER_HOUR
             hits == {k \in DOMAIN rows :
                        rows[k].region = region /\ rows[k].fetch_date > cutoff_time}
         IN  [raised |-> FALSE, rows |-> Limit(OrderRows(rows, hits), limit)]

\* get_all_articles_by_region(hours_back) with the ways the store can fail;
\* an empty dictionary is the function of empty domain.
query_all_by_region(rows, t, hours_back, mode) ==
    IF ~db_opens(mode, 0) THEN [raised |-> TRUE, by_region |-> <<>>]
    ELSE IF mode = "exec_error" THEN [raised |-> FALSE, by_region |-> <<>>]
    ELSE [raised |-> FALSE,
          by_region |-> get_all_articles_by_region(rows, t, hours_back * SECONDS_PER_HOUR)]

\* The dictionary get_database_stats builds; empty is {} of the source.
NoStats ==
    [empty |-> TRUE, total_articles |-> 0, articles_by_region |-> <<>>,
     top_sources |-> <<>>, articles_last_24h |-> 0]

\* get_database_stats(): fewer than ten sources have rows here, so LIMIT 10
\* keeps them all.
get_database_stats(rows, t, mode) ==
    IF ~db_opens(mode, 0) THEN [raised |-> TRUE, stats |-> NoStats]
    ELSE IF mode = "exec_error" THEN [raised |-> FALSE, stats |-> NoStats]
    ELSE LET yesterday == t - 24 * SECONDS_PER_HOUR
             regs == {rows[k].region : k \in DOMAIN rows}
             srcs == {rows[k].source : k \in DOMAIN rows}
         IN  [raised |-> FALSE,
              stats |->
                [empty |-> FALSE,
                 total_articles |-> Len(rows),
                 articles_by_region |->
                     [r \in regs |-> Cardinality({k \in DOMAIN rows : rows[k].region = r})],
                 top_sources |->
                     [n \in srcs |-> Cardinality({k \in DOMAIN rows : rows[k].source = n})],
                 articles_last_24h |->
                     Cardinality({k \in DOMAIN rows : rows[k].fetch_date > yesterday})]]

\* The rows a DELETE ... WHERE fetch_date < cutoff leaves, in rowid order.
RECURSIVE KeepFrom(_, _, _)
KeepFrom(rows, k, cutoff) ==
    IF k > Len(rows) THEN <<>>
    ELSE (IF rows[k].fetch_date < cutoff THEN <<>> ELSE <<rows[k]>>)
         \o KeepFrom(rows, k + 1, cutoff)

\* A purge that also deletes the rows on the cutoff.
cleanup_old_articles_inclusive(rows, t, days_old, mode) ==
    IF ~db_opens(mode, 0) THEN [store |-> rows, count |-> 0, raised |-> TRUE]
    ELSE IF mode = "exec_error" THEN [store |-> rows, count |-> 0, raised |-> FALSE]
    ELSE LET cutoff_date == t - days_old * SECONDS_PER_DAY
             kept == KeepFrom(rows, 1, cutoff_date + 1)
         IN  [store |-> kept, count |-> Len(rows) - Len(kept), raised |-> FALSE]

\* cleanup_old_articles(days_old): the rows left, cursor.rowcount, and
\* whether it raised.  A statement that fails changes nothing and gives 0.
cleanup_old_articles(rows, t, days_old, mode) ==
    IF ~db_opens(mode, 0) THEN [store |-> rows, count |-> 0, raised |-> TRUE]
    ELSE IF mode = "exec_error" THEN [store |-> rows, count |-> 0, raised |-> FALSE]
    ELSE LET cutoff_date == t - days_old * SECONDS_PER_DAY
             kept == KeepFrom(rows, 1, cutoff_date)
         IN  [store |-> kept, count |-> Len(rows) - Len(kept), raised |-> FALSE]

(***************************************************************************)
(* news_scraper.py: the aggregation passes.                                *)
(***************************************************************************)
\* The processed item of the flat pass, also the shape of a cache entry.
FlatItem(source_name, item) ==
    [source |-> source_name, title |-> item.title, link |-> item.link,
     summary |-> summary_of(item.description)]

\* processed_item of the region-grouped pass.
RegionItem(src, item) ==
    [region |-> src.region, flag |-> src.flag, source |-> src.name,
     title |-> item.title, link |-> item.link,
     summary |-> summary_of(item.description)]

\* db_item of the region-grouped pass (language and category are constant).
DbItem(src, item) ==
    [region |-> src.region, country |-> src.region, flag |-> src.flag,
     source |-> src.name, title |-> item.title, link |-> item.link,
     description |-> item.description,
     summary |-> summary_of(item.description)]

\* A cached item stamped with the current region and flag.
StampCached(src, item) ==
    [region |-> src.region, flag |-> src.flag, source |-> item.source,
     title |-> item.title, link |-> item.link, summary |-> item.summary]

\* The cache entry of a processed item: region and flag dropped.
CacheItem(item) ==
    [source |-> item.source, title |-> item.title, link |-> item.link,
     summary |-> item.summary]

\* A flat pass that answers with sample content when it gathered nothing.
RECURSIVE FlatFrom_sample(_, _, _, _)
FlatFrom_sample(acc, k, feeds, t) ==
    IF k > Len(FEED_SOURCES)
    THEN (IF acc.aggregated # <<>> THEN acc
          ELSE [acc EXCEPT !.aggregated =
                   [i \in 1..Len(SAMPLE_NEWS_DATA["IntlOrg"]) |->
                       CacheItem(SAMPLE_NEWS_DATA["IntlOrg"][i])]])
    ELSE LET name == FEED_SOURCES[k]
         IN  IF is_cache_valid(acc.cache, name, t)
             THEN FlatFrom_sample([acc EXCEPT
                               !.aggregated = @ \o load_from_cache(acc.cache, name),
                               !.valid = @ \cup {name}],
                           k + 1, feeds, t)
             ELSE LET items == Take(feeds[name], MAX_ITEMS_PER_SOURCE)
                      processed_items ==
                          [i \in 1..Len(items) |-> FlatItem(name, items[i])]
                  IN  FlatFrom_sample([acc EXCEPT
                                   !.aggregated = @ \o processed_items,
                                   !.fetched = @ \cup {name},
                                   !.cache = save_to_cache(@, name, processed_items, t)],
                               k + 1, feeds, t)

\* fetch_all_news from source k on: acc holds cache, aggregated, fetched.
RECURSIVE FlatFrom(_, _, _, _)
FlatFrom(acc, k, feeds, t) ==
    IF k > Len(FEED_SOURCES) THEN acc
    ELSE LET name == FEED_SOURCES[k]
         IN  IF is_cache_valid(acc.cache, name, t)
             THEN FlatFrom([acc EXCEPT
                               !.aggregated = @ \o load_from_cache(acc.cache, name),
                               !.valid = @ \cup {name}],
                           k + 1, feeds, t)
             ELSE LET items == Take(feeds[name], MAX_ITEMS_PER_SOURCE)
                      processed_items ==
                          [i \in 1..Len(items) |-> FlatItem(name, items[i])]
                  IN  FlatFrom([acc EXCEPT
                                   !.aggregated = @ \o processed_items,
                                   !.fetched = @ \cup {name},
                                   !.cache = save_to_cache(@, name, processed_items, t)],
                               k + 1, feeds, t)

\* Lines 330-337: insert the batch and record the outcome; an exception of
\* either call is caught and answered by recording a failure, which may raise.
SaveToDatabase(w, source_name, db_items, t, mode) ==
    LET ins == insert_articles_batch(w, db_items, t, mode)
        ok == update_source_stats(ins.w, source_name, TRUE, ins.count, "", mode)
        wcaught == IF ins.raised THEN ins.w ELSE ok.w
    IN  IF ~ins.raised /\ ~ok.raised THEN ok
        ELSE update_source_stats(wcaught, source_name, FALSE, 0,
                                 "unable to open database file", mode)

\* Lines 287-294: the cache of src is valid.
CacheHit(acc, src) ==
    LET cached_items == load_from_cache(acc.cache, src.name)
    IN  [acc EXCEPT
            !.news[src.region] =
                @ \o [i \in 1..Len(cached_items) |-> StampCached(src, cached_items[i])],
            !.successful = @ + 1,
            !.valid = @ \cup {src.name}]

\* Lines 301-347: the fetch returned items (already capped).
FetchSucceeded(acc, src, items, t, mode) ==
    LET processed_items == [i \in 1..Len(items) |-> RegionItem(src, items[i])]
        db_items == [i \in 1..Len(items) |-> DbItem(src, items[i])]
        d == SaveToDatabase(acc.w, src.name, db_items, t, mode)
    IN  IF d.raised
        THEN [acc EXCEPT !.w = d.w, !.raised = TRUE]
        ELSE [acc EXCEPT
                 !.w = d.w,
                 !.news[src.region] = @ \o processed_items,
                 !.cache = save_to_cache(@, src.name,
                     [i \in 1..Len(items) |-> CacheItem(processed_items[i])], t),
                 !.successful = @ + 1]

\* Variant: the failed fetch saves its empty batch, as fetch_all_news does.
FetchFailed_saving(acc, src, t, mode) ==
    LET d == update_source_stats(acc.w, src.name, FALSE, 0,
                                 "Failed to fetch RSS data", mode)
    IN  [acc EXCEPT !.w = d.w, !.raised = d.raised,
                    !.cache = save_to_cache(@, src.name, <<>>, t)]

\* Lines 348-351: the fetch returned nothing.
FetchFailed(acc, src, t, mode) ==
    LET d == update_source_stats(acc.w, src.name, FALSE, 0,
                                 "Failed to fetch RSS data", mode)
    IN  [acc EXCEPT !.w = d.w, !.raised = d.raised]

\* One source of fetch_news_by_region (lines 283-351).
RegionSource(acc, src, feed, t, mode) ==
    IF is_cache_valid(acc.cache, src.name, t)
    THEN CacheHit(acc, src)
    ELSE LET items == Take(feed, MAX_ITEMS_PER_SOURCE)
             acc1 == [acc EXCEPT !.fetched = @ \cup {src.name}]
         IN  IF items # <<>>
             THEN FetchSucceeded(acc1, src, items, t, mode)
             ELSE FetchFailed(acc1, src, t, mode)

\* The loop of fetch_news_by_region over the regions and their sources.
RECURSIVE RegionFrom(_, _, _, _, _)
RegionFrom(acc, k, feeds, t, mode) ==
    IF k > Len(SourceList) \/ acc.raised THEN acc
    ELSE RegionFrom(RegionSource(acc, SourceList[k], feeds[SourceList[k].name], t, mode),
                    k + 1, feeds, t, mode)

\* A format that keeps the column name of the flag.
FormatArticle_raw(row) ==
    [region |-> row.region, country |-> row.country, flag_emoji |-> row.flag_emoji,
     source |-> row.source, title |-> row.title, link |-> row.link,
     summary |-> IF row.summary # <<>> THEN row.summary
                 ELSE Take(row.description, 200) \o <<".", ".", ".">>]

\* The API format of a stored row (lines 248-256).
FormatArticle(row) ==
    [region |-> row.region, country |-> row.country, flag |-> row.flag_emoji,
     source |-> row.source, title |-> row.title, link |-> row.link,
     summary |-> IF row.summary # <<>> THEN row.summary
                 ELSE Take(row.description, 200) \o <<".", ".", ".">>]

\* fetch_news_by_region_from_db: every failure of the store gives {}.
fetch_news_by_region_from_db(w, t, mode) ==
    IF ~db_opens(mode, w.conns) \/ mode = "exec_error"
    THEN [r \in {} |-> <<>>]
    ELSE LET by == get_all_articles_by_region(w.store, t, HOURS_24)
         IN  [r \in DOMAIN by |->
                 LET arts == Take(by[r], MAX_ITEMS_PER_SOURCE)
                 IN  [i \in 1..Len(arts) |-> FormatArticle(arts[i])]]

\* "not news_by_region.get(region) or len(news_by_region[region]) < 2"
Sparse(news, region) ==
    \/ region \notin DOMAIN news
    \/ Len(news[region]) < 2

\* A merge that takes the store's version of every region it has.
MergeDb_every(news, db_data) ==
    [r \in DOMAIN news \cup DOMAIN db_data |->
        IF r \in DOMAIN db_data THEN db_data[r] ELSE news[r]]

\* Lines 361-363: each region the store has data for replaces a sparse one.
MergeDb(news, db_data) ==
    [r \in DOMAIN news \cup DOMAIN db_data |->
        IF r \in DOMAIN db_data /\ Sparse(news, r) THEN db_data[r] ELSE news[r]]

\* Variant: only a region missing from the result takes the sample content.
MergeSample_missing_only(news) ==
    [r \in DOMAIN news \cup DOMAIN SAMPLE_NEWS_DATA |->
        IF r \notin DOMAIN news THEN SAMPLE_NEWS_DATA[r] ELSE news[r]]

\* Lines 368-371: each sample region replaces a sparse one.
MergeSample(news) ==
    [r \in DOMAIN news \cup DOMAIN SAMPLE_NEWS_DATA |->
        IF r \in DOMAIN SAMPLE_NEWS_DATA /\ Sparse(news, r)
        THEN SAMPLE_NEWS_DATA[r] ELSE news[r]]

\* Variant: the gate taken at "no more than half succeeded".
BelowThreshold_half(successful_fetches) == 2 * successful_fetches <= total_sources

\* Line 356: successful_fetches < total_sources * 0.3
BelowThreshold(successful_fetches) == 10 * successful_fetches < 3 * total_sources

\* A judgement that also takes a total of exactly 10 for insufficient.
Insufficient_inclusive(news) == DOMAIN news = {} \/ SumLen(news, DOMAIN news) <= 10

\* Line 366: the store is judged insufficient.
Insufficient(news) == DOMAIN news = {} \/ SumLen(news, DOMAIN news) < 10

\* Lines 355-373 on the accumulated news.
Fallback(acc, t, mode) ==
    IF ~BelowThreshold(acc.successful)
    THEN [news |-> acc.news, used_db |-> FALSE, used_sample |-> FALSE,
          db_data |-> <<>>, merged |-> acc.news]
    ELSE LET db_data == fetch_news_by_region_from_db(acc.w, t, mode)
             merged == MergeDb(acc.news, db_data)
         IN  IF Insufficient(merged)
             THEN [news |-> MergeSample(merged), used_db |-> TRUE, used_sample |-> TRUE,
                   db_data |-> db_data, merged |-> merged]
             ELSE [news |-> merged, used_db |-> TRUE, used_sample |-> FALSE,
                   db_data |-> db_data, merged |-> merged]

(***************************************************************************)
(* State machine.  last records the latest operation: its inputs, what it  *)
(* returned and the state it started from.                                 *)
(***************************************************************************)
TickSteps == {CACHE_DURATION - 1, CACHE_DURATION, CACHE_DURATION + 1, HOURS_24}

NoOp == [op |-> "none"]

\* The request threads of the server and what a thread holds of its pass:
\* its position, the items it fetched, its list for the region, its count of
\* successful sources, and what it saw of the cache.
Threads == {1, 2}

IdleThread ==
    [pc |-> "idle", items |-> <<>>, news |-> <<>>, successful |-> 0,
     valid |-> FALSE, observed |-> FALSE, loaded |-> <<>>, during_save |-> FALSE]

NoThreads == [p \in Threads |-> IdleThread]

Init ==
    /\ threads = NoThreads
    /\ now = 0
    /\ ticks = 0
    /\ passes = 0
    /\ cache = [s \in Sources |-> NoFile]
    /\ store = <<>>
    /\ logs = <<>>
    /\ stats = [s \in Sources |-> [fetch_count |-> 0, error_count |-> 0]]
    /\ last = NoOp

\* The state after construction but for the operation recorded.
Constructed ==
    /\ threads = NoThreads
    /\ now = 0
    /\ ticks = 0
    /\ passes = 0
    /\ cache = [s \in Sources |-> NoFile]
    /\ store = <<>>
    /\ logs = <<>>
    /\ stats = [s \in Sources |-> [fetch_count |-> 0, error_count |-> 0]]

\* The clock advances between two requests (explored between passes only).
Tick ==
    /\ ticks < MaxTicks
    /\ 0 < passes /\ passes < MaxPasses
    /\ \E d \in TickSteps : now' = now + d
    /\ ticks' = ticks + 1
    /\ last' = NoOp
    /\ UNCHANGED <<threads, passes, cache, store, logs, stats>>

\* GET /api/news: fetch_all_news().
FlatPass ==
    /\ passes < MaxPasses
    /\ \E feeds \in FeedChoices(cache, now) :
         LET acc == FlatFrom([cache |-> cache, aggregated |-> <<>>,
                              fetched |-> {}, valid |-> {}], 1, feeds, now)
         IN  /\ cache' = acc.cache
             /\ last' = [op |-> "flat",
                         feeds |-> [s \in Sources |->
                                       IF s \in acc.fetched THEN feeds[s] ELSE <<>>],
                         result |-> acc.aggregated,
                         fetched |-> acc.fetched, valid |-> acc.valid,
                         pre_cache |-> cache]
    /\ passes' = passes + 1
    /\ UNCHANGED <<threads, now, ticks, store, logs, stats>>

\* GET /api/news/by-region: fetch_news_by_region().
RegionPass ==
    /\ passes < MaxPasses
    /\ \E feeds \in FeedChoices(cache, now), mode \in DbModes :
         LET acc == RegionFrom(
                        [w |-> [store |-> store, logs |-> logs, stats |-> stats,
                                conns |-> 0],
                         cache |-> cache, news |-> [r \in Regions |-> <<>>],
                         successful |-> 0, raised |-> FALSE,
                         fetched |-> {}, valid |-> {}],
                        1, feeds, now, mode)
             fb == Fallback(acc, now, mode)
         IN  /\ cache' = acc.cache
             /\ store' = acc.w.store
             /\ logs' = acc.w.logs
             /\ stats' = acc.w.stats
             /\ last' = [op |-> "region", mode |-> mode,
                         feeds |-> [s \in Sources |->
                                       IF s \in acc.fetched THEN feeds[s] ELSE <<>>],
                         raised |-> acc.raised,
                         result |-> IF acc.raised THEN <<>> ELSE fb.news,
                         live |-> acc.news,
                         successful |-> acc.successful,
                         used_db |-> ~acc.raised /\ fb.used_db,
                         used_sample |-> ~acc.raised /\ fb.used_sample,
                         db_data |-> fb.db_data, merged |-> fb.merged,
                         fetched |-> acc.fetched, valid |-> acc.valid,
                         pre_cache |-> cache, pre_store |-> store,
                         pre_logs |-> logs]
    /\ passes' = passes + 1
    /\ UNCHANGED <<threads, now, ticks>>

Next == Tick \/ FlatPass \/ RegionPass

Spec == Init /\ [][Next]_vars

(***************************************************************************)
(* The article store on its own: insert_articles_batch called with         *)
(* arbitrary batches.  Titles and links may hold the '|' character.        *)
(***************************************************************************)
MaxStoreOps == 3

Article(title, link, source) ==
    [region |-> "US", country |-> "US", flag |-> "us", source |-> source,
     title |-> title, link |-> link, description |-> <<"a", ".">>,
     summary |-> <<"a", ".">>]

ArticleUniverse ==
    { Article("a", "c", "CNN"), Article("a", "c", "NPR"),
      Article("a|b", "c", "CNN"), Article("a", "b|c", "CNN") }

Batches ==
    {<<>>} \cup {<<x>> : x \in ArticleUniverse}
           \cup {<<x, y>> : x \in ArticleUniverse, y \in ArticleUniverse}

StoreInsert ==
    /\ passes < MaxStoreOps
    /\ \E articles \in Batches, mode \in {"ok", "exec_error"} :
         LET r == insert_articles_batch(
                      [store |-> store, logs |-> logs, stats |-> stats, conns |-> 0],
                      articles, now, mode)
         IN  /\ store' = r.w.store
             /\ last' = [op |-> "insert", mode |-> mode, batch |-> articles,
                         count |-> r.count, raised |-> r.raised,
                         pre_store |-> store]
    /\ passes' = passes + 1
    /\ UNCHANGED <<threads, now, ticks, cache, logs, stats>>

StoreTick ==
    /\ ticks < MaxTicks
    /\ now' = now + 1
    /\ ticks' = ticks + 1
    /\ last' = NoOp
    /\ UNCHANGED <<threads, passes, cache, store, logs, stats>>

NextStore == StoreInsert \/ StoreTick

SpecStore == Init /\ [][NextStore]_vars

(***************************************************************************)
(* The summarizer on its own: summarize_text applied to texts made of up   *)
(* to MaxPieces pieces joined by single spaces.  An empty piece gives      *)
(* leading, trailing and doubled whitespace; a piece may be a markup tag,  *)
(* a sentence without a word, or a sentence the text already holds.        *)
(***************************************************************************)
MaxPieces == 4
MaxSentences == 3

Pieces ==
    { <<>>, <<"a", ".">>, <<"a", " ", "b", ".">>, <<"c", ".">>,
      <<"<", "b", ">">>, <<"!">> }

PieceSeqs == UNION {[1..k -> Pieces] : k \in 1..MaxPieces}

TextOf(ps) == JoinSpace(ps, [k \in 1..Len(ps) |-> k], 1)

InitSum ==
    /\ Constructed
    /\ \E ps \in PieceSeqs : last = [op |-> "text", text |-> TextOf(ps)]

Summarize ==
    /\ last.op = "text"
    /\ \E num_sentences \in 1..MaxSentences :
         last' = [op |-> "summarize", text |-> last.text,
                  num_sentences |-> num_sentences,
                  selected |-> top_sentences(last.text, num_sentences),
                  summary |-> summarize_text(last.text, num_sentences)]
    /\ UNCHANGED <<threads, now, ticks, passes, cache, store, logs, stats>>

NextSum == Summarize

SpecSum == InitSum /\ [][NextSum]_vars

(***************************************************************************)
(* news_scraper.py: fetch_feed over the outcomes of one request.  The      *)
(* request fails in transport, times out, or answers with a status and a   *)
(* body.  ET.fromstring raises ParseError on a body that is not XML,       *)
(* raises ValueError or LookupError on a body that declares an encoding    *)
(* the parser does not decode (gb2312, Shift_JIS, an unknown name), and    *)
(* otherwise gives a tree with or without a channel under its root.  A     *)
(* child element of an item is absent, has no text (el.text is None), or   *)
(* has a text.                                                             *)
(***************************************************************************)
MaxFeedItems == 2

Absent == [present |-> FALSE, has_text |-> FALSE, text |-> <<>>]
NoText == [present |-> TRUE, has_text |-> FALSE, text |-> <<>>]
Text(t) == [present |-> TRUE, has_text |-> TRUE, text |-> t]
Blank == Text(<<" ", " ">>)

ItemElements ==
    [title : {Absent, NoText, Blank, Text(<<" ", "t", " ">>), Text(<<"u">>)},
     link : {Absent, Blank, Text(<<"l", " ">>)},
     description : {NoText, Blank, Text(<<"d">>)}]

Bodies ==
    {[xml |-> "malformed", channel |-> FALSE, items |-> <<>>],
     [xml |-> "unsupported_encoding", channel |-> FALSE, items |-> <<>>],
     [xml |-> "tree", channel |-> FALSE, items |-> <<>>]}
    \cup {[xml |-> "tree", channel |-> TRUE, items |-> f] :
             f \in UNION {[1..k -> ItemElements] : k \in 0..MaxFeedItems}}

Responses ==
    {[kind |-> k, status |-> 0, body |-> [xml |-> "malformed", channel |-> FALSE,
                                          items |-> <<>>]] :
        k \in {"connection_error", "timeout"}}
    \cup {[kind |-> "http", status |-> 200, body |-> b] : b \in Bodies}
    \cup {[kind |-> "http", status |-> st,
           body |-> [xml |-> "tree", channel |-> TRUE,
                     items |-> <<[title |-> Text(<<"u">>), link |-> Text(<<"l", " ">>),
                                  description |-> Text(<<"d">>)]>>]] :
             st \in {404, 503}}

\* el.text.strip() if el is not None and el.text else None.  None is the
\* empty value here: line 133 tests the value for truth only.
field_text(el) ==
    IF el.present /\ el.has_text /\ el.text # <<>> THEN StripSpace(el.text) ELSE <<>>

\* A loop that ends at the first item it cannot use.
RECURSIVE items_from_until(_, _)
items_from_until(elements, k) ==
    IF k > Len(elements) THEN <<>>
    ELSE LET title == field_text(elements[k].title)
             link == field_text(elements[k].link)
             desc == field_text(elements[k].description)
         IN  IF title = <<>> \/ link = <<>> \/ desc = <<>>
             THEN <<>>
             ELSE <<[title |-> title, link |-> link, description |-> desc]>>
                  \o items_from_until(elements, k + 1)

\* for item in channel.findall('item'): ..., from item k on.
RECURSIVE items_from(_, _)
items_from(elements, k) ==
    IF k > Len(elements) THEN <<>>
    ELSE LET title == field_text(elements[k].title)
             link == field_text(elements[k].link)
             desc == field_text(elements[k].description)
         IN  IF title = <<>> \/ link = <<>> \/ desc = <<>>
             THEN items_from(elements, k + 1)
             ELSE <<[title |-> title, link |-> link, description |-> desc]>>
                  \o items_from(elements, k + 1)

\* response.raise_for_status(): HTTPError for a 4xx or 5xx status.
raise_for_status(response) == 400 <= response.status /\ response.status < 600

\* Only requests.RequestException and ET.ParseError are caught; the parser's
\* ValueError and LookupError leave the function.
fetch_feed(response) ==
    IF response.kind # "http" \/ raise_for_status(response)
    THEN [raised |-> FALSE, items |-> <<>>]
    ELSE IF response.body.xml = "malformed" THEN [raised |-> FALSE, items |-> <<>>]
    ELSE IF response.body.xml = "unsupported_encoding"
    THEN [raised |-> TRUE, items |-> <<>>]
    ELSE IF ~response.body.channel THEN [raised |-> FALSE, items |-> <<>>]
    ELSE [raised |-> FALSE, items |-> items_from(response.body.items, 1)]

InitFetch ==
    /\ Constructed
    /\ \E response \in Responses : last = [op |-> "response", response |-> response]

FetchFeed ==
    /\ last.op = "response"
    /\ LET r == fetch_feed(last.response)
       IN  last' = [op |-> "fetch", response |-> last.response,
                    raised |-> r.raised, items |-> r.items]
    /\ UNCHANGED <<threads, now, ticks, passes, cache, store, logs, stats>>

NextFetch == FetchFeed

SpecFetch == InitFetch /\ [][NextFetch]_vars

(***************************************************************************)
(* app.py and the store: the maintenance and monitoring requests, the      *)
(* store's queries and insertions, over a clock that moves between them.   *)
(***************************************************************************)
MaxApiOps == 3
MaxApiTicks == 2

\* get_database_statistics(): any exception gives the empty dictionary.
get_database_statistics(rows, t, mode) ==
    LET r == get_database_stats(rows, t, mode)
    IN  IF r.raised THEN [raised |-> FALSE, stats |-> NoStats]
        ELSE [raised |-> FALSE, stats |-> r.stats]

\* cleanup_old_news(days): any exception gives 0.
cleanup_old_news(rows, t, days, mode) ==
    LET r == cleanup_old_articles(rows, t, days, mode)
    IN  IF r.raised THEN [store |-> r.store, count |-> 0]
        ELSE [store |-> r.store, count |-> r.count]

\* A handler that lets zero days through.
api_cleanup_old_news_from_zero(rows, t, days, mode) ==
    IF days < 0 \/ days > 365
    THEN [store |-> rows, code |-> 400, deleted_count |-> 0]
    ELSE LET r == cleanup_old_news(rows, t, days, mode)
         IN  [store |-> r.store, code |-> 200, deleted_count |-> r.count]

\* GET /api/cleanup/<int:days>
api_cleanup_old_news(rows, t, days, mode) ==
    IF days < 1 \/ days > 365
    THEN [store |-> rows, code |-> 400, deleted_count |-> 0]
    ELSE LET r == cleanup_old_news(rows, t, days, mode)
         IN  [store |-> r.store, code |-> 200, deleted_count |-> r.count]

\* GET /api/health: stats.get(key, default) reads the default from {}.
api_health_check(rows, t, mode) ==
    LET r == get_database_statistics(rows, t, mode)
    IN  IF r.raised
        THEN [code |-> 500, status |-> "unhealthy", database |-> "",
              total_articles |-> 0, regions_count |-> 0, last_24h_articles |-> 0]
        ELSE [code |-> 200, status |-> "healthy", database |-> "connected",
              total_articles |-> r.stats.total_articles,
              regions_count |-> Cardinality(DOMAIN r.stats.articles_by_region),
              last_24h_articles |-> r.stats.articles_last_24h]

ApiModes == {"ok", "exec_error", "open_error"}

\* The <int:days> values explored: the two ends of the range, their
\* neighbours outside it, and the default of cleanup_old_news.
DaysChoices == {0, 1, 30, 365, 366}

ApiTickSteps == {SECONDS_PER_DAY, SECONDS_PER_DAY + 1, 30 * SECONDS_PER_DAY}

ApiArticles ==
    { Article("a", "c", "CNN"), Article("b", "c", "NPR"),
      [Article("d", "c", "Reuters") EXCEPT !.region = "IntlOrg",
                                            !.country = "IntlOrg", !.flag = "un"] }

ApiInsert ==
    /\ passes < MaxApiOps
    /\ \E a \in ApiArticles :
         LET r == insert_articles_batch(
                      [store |-> store, logs |-> logs, stats |-> stats, conns |-> 0],
                      <<a>>, now, "ok")
         IN  /\ store' = r.w.store
             /\ last' = [op |-> "insert", pre_store |-> store]
    /\ passes' = passes + 1
    /\ UNCHANGED <<threads, now, ticks, cache, logs, stats>>

ApiTick ==
    /\ ticks < MaxApiTicks
    /\ \E d \in ApiTickSteps : now' = now + d
    /\ ticks' = ticks + 1
    /\ last' = [op |-> "tick", pre_store |-> store]
    /\ UNCHANGED <<threads, passes, cache, store, logs, stats>>

ApiCleanup ==
    /\ passes < MaxApiOps
    /\ \E days \in DaysChoices, mode \in ApiModes :
         LET r == api_cleanup_old_news(store, now, days, mode)
         IN  /\ store' = r.store
             /\ last' = [op |-> "cleanup", days |-> days, mode |-> mode,
                         code |-> r.code, deleted_count |-> r.deleted_count,
                         pre_store |-> store]
    /\ passes' = passes + 1
    /\ UNCHANGED <<threads, now, ticks, cache, logs, stats>>

QueryByRegion ==
    /\ passes < MaxApiOps
    /\ \E region \in Regions, limit \in {1, 50}, hours_back \in {24, 72},
          mode \in ApiModes :
         LET r == get_articles_by_region(store, now, region, limit, hours_back, mode)
         IN  last' = [op |-> "query_by_region", region |-> region, limit |-> limit,
                      hours_back |-> hours_back, mode |-> mode,
                      raised |-> r.raised, rows |-> r.rows, pre_store |-> store]
    /\ passes' = passes + 1
    /\ UNCHANGED <<threads, now, ticks, cache, store, logs, stats>>

QueryAllByRegion ==
    /\ passes < MaxApiOps
    /\ \E hours_back \in {24, 72}, mode \in ApiModes :
         LET r == query_all_by_region(store, now, hours_back, mode)
         IN  last' = [op |-> "query_all_by_region", hours_back |-> hours_back,
                      mode |-> mode, raised |-> r.raised,
                      by_region |-> r.by_region, pre_store |-> store]
    /\ passes' = passes + 1
    /\ UNCHANGED <<threads, now, ticks, cache, store, logs, stats>>

ApiHealth ==
    /\ passes < MaxApiOps
    /\ \E mode \in ApiModes :
         last' = [op |-> "health", mode |-> mode,
                  response |-> api_health_check(store, now, mode),
                  pre_store |-> store]
    /\ passes' = passes + 1
    /\ UNCHANGED <<threads, now, ticks, cache, store, logs, stats>>

NextApi ==
    ApiInsert \/ ApiTick \/ ApiCleanup \/ QueryByRegion \/ QueryAllByRegion
        \/ ApiHealth

SpecApi == Init /\ [][NextApi]_vars

(***************************************************************************)
(* app.py: GET /api/news/region/<region_name>.  The handler runs a whole   *)
(* region-grouped pass and answers from its result.                        *)
(***************************************************************************)
\* The names asked for: a configured region, a region only the sample data
\* has, and a name nothing has.
RegionNames == {"US", "Europe", "Mars"}

\* fetch_news_by_region() from the current state: the accumulator of the
\* loop and what the fallback makes of it.
RegionRun(feeds, mode) ==
    LET acc == RegionFrom(
                   [w |-> [store |-> store, logs |-> logs, stats |-> stats,
                           conns |-> 0],
                    cache |-> cache, news |-> [r \in Regions |-> <<>>],
                    successful |-> 0, raised |-> FALSE,
                    fetched |-> {}, valid |-> {}],
                   1, feeds, now, mode)
    IN  [acc |-> acc, fb |-> Fallback(acc, now, mode)]

\* A handler that takes a region without items for a missing one.
api_news_single_region_nonempty(region_name, raised, news_by_region) ==
    IF raised THEN [code |-> 500, region |-> "", news |-> <<>>, count |-> 0]
    ELSE IF region_name \notin DOMAIN news_by_region
            \/ news_by_region[region_name] = <<>>
    THEN [code |-> 404, region |-> "", news |-> <<>>, count |-> 0]
    ELSE [code |-> 200, region |-> region_name,
          news |-> news_by_region[region_name],
          count |-> Len(news_by_region[region_name])]

\* The response of api_news_single_region: 500 when the pass raised, 404
\* when the name is no key of the result, else the region's items.
api_news_single_region(region_name, raised, news_by_region) ==
    IF raised THEN [code |-> 500, region |-> "", news |-> <<>>, count |-> 0]
    ELSE IF region_name \notin DOMAIN news_by_region
    THEN [code |-> 404, region |-> "", news |-> <<>>, count |-> 0]
    ELSE [code |-> 200, region |-> region_name,
          news |-> news_by_region[region_name],
          count |-> Len(news_by_region[region_name])]

ApiSingleRegion ==
    /\ passes < MaxPasses
    /\ \E feeds \in FeedChoices(cache, now), mode \in DbModes :
         LET run == RegionRun(feeds, mode)
             news_by_region == IF run.acc.raised THEN <<>> ELSE run.fb.news
         IN  /\ cache' = run.acc.cache
             /\ store' = run.acc.w.store
             /\ logs' = run.acc.w.logs
             /\ stats' = run.acc.w.stats
             /\ \E region_name \in RegionNames :
                    last' = [op |-> "single", region_name |-> region_name,
                             raised |-> run.acc.raised,
                             news_by_region |-> news_by_region,
                             response |-> api_news_single_region(
                                              region_name, run.acc.raised,
                                              news_by_region)]
    /\ passes' = passes + 1
    /\ UNCHANGED <<threads, now, ticks>>

\* The cache entries expire between two requests.
SingleTick ==
    /\ ticks < MaxTicks
    /\ 0 < passes /\ passes < MaxPasses
    /\ now' = now + CACHE_DURATION
    /\ ticks' = ticks + 1
    /\ last' = NoOp
    /\ UNCHANGED <<threads, passes, cache, store, logs, stats>>

NextSingle == SingleTick \/ ApiSingleRegion

SpecSingle == Init /\ [][NextSingle]_vars

(***************************************************************************)
(* database.py: update_source_stats called on its own, with every source,  *)
(* outcome and count, on a store that works, fails or cannot be opened.    *)
(***************************************************************************)
MaxOutcomes == 3

RecordOutcome ==
    /\ passes < MaxOutcomes
    /\ \E source_name \in Sources, success \in BOOLEAN, articles_count \in {0, 1},
          mode \in ApiModes :
         LET r == update_source_stats(
                      [store |-> store, logs |-> logs, stats |-> stats, conns |-> 0],
                      source_name, success,
                      IF success THEN articles_count ELSE 0,
                      IF success THEN "" ELSE "Failed to fetch RSS data", mode)
         IN  /\ logs' = r.w.logs
             /\ stats' = r.w.stats
             /\ last' = [op |-> "record", source_name |-> source_name,
                         success |-> success, mode |-> mode, raised |-> r.raised,
                         pre_logs |-> logs, pre_stats |-> stats]
    /\ passes' = passes + 1
    /\ UNCHANGED <<threads, now, ticks, cache, store>>

NextOutcome == RecordOutcome

SpecOutcome == Init /\ [][NextOutcome]_vars

(***************************************************************************)
(* fetch_news_by_region over a region with five sources, as the first      *)
(* region of the configured catalog has (it has eight): each source fails  *)
(* or answers with more items than MAX_ITEMS_PER_SOURCE.                    *)
(***************************************************************************)
MaxWidePasses == 2

WIDE_SOURCES_BY_REGION ==
    << [region |-> "US",
        sources |-> << [name |-> "CNN", flag |-> "us"],
                       [name |-> "NPR", flag |-> "us"],
                       [name |-> "AP News", flag |-> "us"],
                       [name |-> "Fox News", flag |-> "us"],
                       [name |-> "USA Today", flag |-> "us"] >>] >>

WideRegions == {WIDE_SOURCES_BY_REGION[i].region : i \in DOMAIN WIDE_SOURCES_BY_REGION}

WideSourceList ==
    [k \in 1..Len(WIDE_SOURCES_BY_REGION[1].sources) |->
        [name |-> WIDE_SOURCES_BY_REGION[1].sources[k].name,
         flag |-> WIDE_SOURCES_BY_REGION[1].sources[k].flag,
         region |-> WIDE_SOURCES_BY_REGION[1].region]]

WideSources == {WideSourceList[k].name : k \in DOMAIN WideSourceList}

wide_total_sources == Len(WideSourceList)

\* The feed answers of one pass: a failure or a long feed for each source
\* fetched, nothing for a source whose cache is valid.
WideFeedChoices(c, t) ==
    {f \in [WideSources -> {<<>>, LongFeed}] :
        \A s \in WideSources : is_cache_valid(c, s, t) => f[s] = <<>>}

\* The loop of fetch_news_by_region over the sources of the region.
RECURSIVE WideRegionFrom(_, _, _, _, _)
WideRegionFrom(acc, k, feeds, t, mode) ==
    IF k > Len(WideSourceList) \/ acc.raised THEN acc
    ELSE WideRegionFrom(
             RegionSource(acc, WideSourceList[k], feeds[WideSourceList[k].name], t, mode),
             k + 1, feeds, t, mode)

\* Lines 355-373 on the accumulated news of a catalog of total sources.
FallbackOver(total, acc, t, mode) ==
    IF ~(10 * acc.successful < 3 * total) THEN acc.news
    ELSE LET db_data == fetch_news_by_region_from_db(acc.w, t, mode)
             merged == MergeDb(acc.news, db_data)
         IN  IF Insufficient(merged) THEN MergeSample(merged) ELSE merged

WideFallback(acc, t, mode) == FallbackOver(wide_total_sources, acc, t, mode)

InitWide ==
    /\ threads = NoThreads
    /\ now = 0
    /\ ticks = 0
    /\ passes = 0
    /\ cache = [s \in WideSources |-> NoFile]
    /\ store = <<>>
    /\ logs = <<>>
    /\ stats = [s \in WideSources |-> [fetch_count |-> 0, error_count |-> 0]]
    /\ last = NoOp

\* GET /api/news/by-region: fetch_news_by_region().
WideRegionPass ==
    /\ passes < MaxWidePasses
    /\ \E feeds \in WideFeedChoices(cache, now), mode \in DbModes :
         LET acc == WideRegionFrom(
                        [w |-> [store |-> store, logs |-> logs, stats |-> stats,
                                conns |-> 0],
                         cache |-> cache, news |-> [r \in WideRegions |-> <<>>],
                         successful |-> 0, raised |-> FALSE,
                         fetched |-> {}, valid |-> {}],
                        1, feeds, now, mode)
         IN  /\ cache' = acc.cache
             /\ store' = acc.w.store
             /\ logs' = acc.w.logs
             /\ stats' = acc.w.stats
             /\ last' = [op |-> "wide", mode |-> mode,
                         raised |-> acc.raised,
                         result |-> IF acc.raised THEN <<>>
                                    ELSE WideFallback(acc, now, mode),
                         successful |-> acc.successful,
                         fetched |-> acc.fetched, valid |-> acc.valid]
    /\ passes' = passes + 1
    /\ UNCHANGED <<threads, now, ticks>>

NextWide == WideRegionPass

SpecWide == InitWide /\ [][NextWide]_vars

(***************************************************************************)
(* Two requests of /api/news/by-region served at once by the threads of    *)
(* the server, followed on the first configured source.  The steps of a    *)
(* thread are the calls of fetch_news_by_region that reach the file system *)
(* or the database; a file opened for writing is empty until it is closed, *)
(* and an empty or broken file loads as no item.                           *)
(***************************************************************************)
MaxRequests == 2

ConcSource == SourceList[1]

ConcFeeds == {<<>>, OneItemFeed, LongFeed}

\* The world the database calls of a thread work on.
World == [store |-> store, logs |-> logs, stats |-> stats, conns |-> 0]

\* A thread is between open(cache_file, 'w') and the end of json.dump.
Saving(p) == threads[p].pc = "dump"

\* What the file holds once a thread has written items from its start into a
\* file holding cur: a shorter text over a longer one leaves a broken file.
Written(cur, items) == IF Len(cur) > Len(items) THEN <<>> ELSE items

\* A request arrives and a thread starts fetch_news_by_region.
Begin(p) ==
    /\ passes < MaxRequests
    /\ threads[p].pc = "idle"
    /\ threads' = [threads EXCEPT ![p] = [IdleThread EXCEPT !.pc = "check"]]
    /\ passes' = passes + 1
    /\ last' = [op |-> "begin", thread |-> p]
    /\ UNCHANGED <<now, ticks, cache, store, logs, stats>>

\* Line 286: is_cache_valid(cache_file).
CheckCache(p) ==
    /\ threads[p].pc = "check"
    /\ LET v == is_cache_valid(cache, ConcSource.name, now)
       IN  threads' = [threads EXCEPT ![p].valid = v,
                                      ![p].pc = IF v THEN "load" ELSE "fetch"]
    /\ last' = [op |-> "check", thread |-> p]
    /\ UNCHANGED <<now, ticks, passes, cache, store, logs, stats>>

\* Lines 287-294: load_from_cache(cache_file) and the stamping of its items.
LoadCache(p) ==
    /\ threads[p].pc = "load"
    /\ LET cached_items == load_from_cache(cache, ConcSource.name)
       IN  threads' = [threads EXCEPT
               ![p].loaded = cached_items,
               ![p].observed = TRUE,
               ![p].during_save = \E q \in Threads \ {p} : Saving(q),
               ![p].news = [i \in 1..Len(cached_items) |->
                               StampCached(ConcSource, cached_items[i])],
               ![p].successful = 1,
               ![p].pc = "return"]
    /\ last' = [op |-> "load", thread |-> p]
    /\ UNCHANGED <<now, ticks, passes, cache, store, logs, stats>>

\* Lines 297-328 and 348-351: fetch_feed and the processing of its items, or
\* the recording of the failure.
Fetch(p) ==
    /\ threads[p].pc = "fetch"
    /\ \E feed \in ConcFeeds :
         LET items == Take(feed, MAX_ITEMS_PER_SOURCE)
             d == update_source_stats(World, ConcSource.name, FALSE, 0,
                                      "Failed to fetch RSS data", "ok")
         IN  IF items # <<>>
             THEN /\ threads' = [threads EXCEPT
                         ![p].items = items,
                         ![p].news = [i \in 1..Len(items) |->
                                         RegionItem(ConcSource, items[i])],
                         ![p].pc = "db"]
                  /\ UNCHANGED <<store, logs, stats>>
             ELSE /\ threads' = [threads EXCEPT ![p].pc = "return"]
                  /\ store' = d.w.store
                  /\ logs' = d.w.logs
                  /\ stats' = d.w.stats
    /\ last' = [op |-> "fetch", thread |-> p]
    /\ UNCHANGED <<now, ticks, passes, cache>>

\* Lines 330-337: insert_articles_batch and update_source_stats.
SaveDb(p) ==
    /\ threads[p].pc = "db"
    /\ LET items == threads[p].items
           db_items == [i \in 1..Len(items) |-> DbItem(ConcSource, items[i])]
           d == SaveToDatabase(World, ConcSource.name, db_items, now, "ok")
       IN  /\ store' = d.w.store
           /\ logs' = d.w.logs
           /\ stats' = d.w.stats
    /\ threads' = [threads EXCEPT ![p].pc = "open"]
    /\ last' = [op |-> "db", thread |-> p]
    /\ UNCHANGED <<now, ticks, passes, cache>>

\* Line 90: open(cache_file, 'w') creates or empties the file.
OpenCache(p) ==
    /\ threads[p].pc = "open"
    /\ cache' = save_to_cache(cache, ConcSource.name, <<>>, now)
    /\ threads' = [threads EXCEPT ![p].pc = "dump"]
    /\ last' = [op |-> "open", thread |-> p]
    /\ UNCHANGED <<now, ticks, passes, store, logs, stats>>

\* Lines 91 and 347: json.dump, the closing of the file, and the count.
DumpCache(p) ==
    /\ threads[p].pc = "dump"
    /\ LET processed_items == threads[p].news
           cache_items == [i \in 1..Len(processed_items) |->
                              CacheItem(processed_items[i])]
       IN  cache' = save_to_cache(cache, ConcSource.name,
                        Written(cache[ConcSource.name].content, cache_items), now)
    /\ threads' = [threads EXCEPT ![p].successful = 1, ![p].pc = "return"]
    /\ last' = [op |-> "dump", thread |-> p]
    /\ UNCHANGED <<now, ticks, passes, store, logs, stats>>

\* Lines 353-373: the fallback tiers and the return of the result.
Return(p) ==
    /\ threads[p].pc = "return"
    /\ last' = [op |-> "return", thread |-> p,
                result |-> FallbackOver(1,
                    [w |-> World,
                     news |-> [r \in {ConcSource.region} |-> threads[p].news],
                     successful |-> threads[p].successful], now, "ok")]
    /\ threads' = [threads EXCEPT ![p].pc = "idle"]
    /\ UNCHANGED <<now, ticks, passes, cache, store, logs, stats>>

\* The clock advances at any moment.
ConcTick ==
    /\ ticks < MaxTicks
    /\ \E d \in {1, CACHE_DURATION} : now' = now + d
    /\ ticks' = ticks + 1
    /\ UNCHANGED <<passes, cache, store, logs, stats, last, threads>>

NextConc ==
    \/ ConcTick
    \/ \E p \in Threads :
           \/ Begin(p) \/ CheckCache(p) \/ LoadCache(p) \/ Fetch(p)
           \/ SaveDb(p) \/ OpenCache(p) \/ DumpCache(p) \/ Return(p)

SpecConc == Init /\ [][NextConc]_vars

(***************************************************************************)
(* Vocabulary of the properties.                                           *)
(***************************************************************************)
IsPass == last.op \in {"flat", "region"}

\* A region-grouped pass that returned.
RegionDone == last.op = "region" /\ ~last.raised

TotalItems(news) == SumLen(news, DOMAIN news)

\* The sources the last pass fetched without getting an item.
FailedSources == {s \in last.fetched : last.feeds[s] = <<>>}

\* What one source gives a region in the last pass: its cache entry as it was
\* when the pass began if it was valid, else the capped items of its feed.
ExpectedOfSource(src) ==
    IF src.name \in last.valid
    THEN LET c == last.pre_cache[src.name].content
         IN  [i \in 1..Len(c) |->
                 [region |-> src.region, flag |-> src.flag, source |-> c[i].source,
                  title |-> c[i].title, link |-> c[i].link, summary |-> c[i].summary]]
    ELSE LET f == last.feeds[src.name]
             n == Min(Len(f), MAX_ITEMS_PER_SOURCE)
         IN  [i \in 1..n |->
                 [region |-> src.region, flag |-> src.flag, source |-> src.name,
                  title |-> f[i].title, link |-> f[i].link,
                  summary |-> summarize_text(f[i].description, 2)]]

RECURSIVE ExpectedFrom(_, _)
ExpectedFrom(r, k) ==
    IF k > Len(SourceList) THEN <<>>
    ELSE (IF SourceList[k].region = r THEN ExpectedOfSource(SourceList[k]) ELSE <<>>)
         \o ExpectedFrom(r, k + 1)

ExpectedRegion(r) == ExpectedFrom(r, 1)

\* The fetch_logs rows the last region-grouped pass added for a source.
NewLogRows(s) ==
    {k \in (Len(last.pre_logs) + 1)..Len(logs) : logs[k].source_name = s}

RowsOfSource(rows, s) == {k \in DOMAIN rows : rows[k].source = s}

Triple(a) == <<a.title, a.link, a.source>>

Triples(rows) == {Triple(rows[k]) : k \in DOMAIN rows}

(***************************************************************************)
(* Properties.                                                             *)
(***************************************************************************)
\* C1: a region-grouped pass with no valid cache entry, every fetch failing
\* and an empty store returns, for every configured region, the sample data
\* provider's content for that region.
AllFailedOnEmptyStore ==
    /\ RegionDone
    /\ last.valid = {}
    /\ \A s \in Sources : last.feeds[s] = <<>>
    /\ last.pre_store = <<>>

C1_FallbackLadder ==
    AllFailedOnEmptyStore =>
        \A r \in Regions :
            /\ r \in DOMAIN last.result
            /\ last.result[r] = get_sample_data_by_region(r)

C1_Witness ==
    /\ AllFailedOnEmptyStore
    /\ last.used_sample
    /\ Len(last.result["IntlOrg"]) = 2
    /\ last.result["US"] = <<>>

\* C2: when at least 30% of the sources succeeded, the store and the sample
\* data are not consulted and every region holds exactly what its sources'
\* live fetches and valid caches gave in this pass.
AtLeastThreshold == 10 * last.successful >= 3 * total_sources

C3_RegionIsolation ==
    RegionDone =>
        \A k \in DOMAIN SourceList :
            LET src == SourceList[k]
                f == last.feeds[src.name]
                res == last.result[src.region]
            IN  src.name \in last.fetched =>
                    \A i \in 1..Min(Len(f), MAX_ITEMS_PER_SOURCE) :
                        \E j \in DOMAIN res :
                            /\ res[j].source = src.name
                            /\ res[j].title = f[i].title
                            /\ res[j].link = f[i].link

\* C4: every region-grouped pass returns at least one item over all regions.
C4_NonEmptyOutput ==
    RegionDone => TotalItems(last.result) >= 1

\* C5: insert_articles_batch keeps exactly one row per distinct (title, link,
\* source) ever submitted and returns the number of rows it added.
C5_InsertIdempotent ==
    (last.op = "insert" /\ last.mode = "ok") =>
        /\ Triples(store) = Triples(last.pre_store) \cup Triples(last.batch)
        /\ Cardinality(Triples(store)) = Len(store)
        /\ last.count = Len(store) - Len(last.pre_store)
        /\ ~last.raised

\* C6: a pass in which a source's fetch returns nothing leaves the cache
\* entry of that source as it was (or absent).
C6_CacheOnlyOnSuccess ==
    IsPass => \A s \in FailedSources : cache[s] = last.pre_cache[s]

\* C7: a pass takes a source's cache entry as valid exactly when its age is
\* below CACHE_DURATION; a source without an entry is never valid.
CacheAge(s) == now - last.pre_cache[s].mtime

C7_CacheFreshness ==
    IsPass =>
        \A s \in last.valid \cup last.fetched :
            /\ (last.pre_cache[s].exists /\ CacheAge(s) < CACHE_DURATION)
                   => s \in last.valid
            /\ (last.pre_cache[s].exists /\ CacheAge(s) >= CACHE_DURATION)
                   => s \in last.fetched
            /\ ~last.pre_cache[s].exists => s \in last.fetched
            /\ ~(s \in last.valid /\ s \in last.fetched)

C7_Witness ==
    /\ IsPass
    /\ \E s \in last.valid : CacheAge(s) = CACHE_DURATION - 1

\* C8: a source whose cache entry is valid but loads empty is treated as a
\* cache miss: it is fetched.
C8_EmptyCacheIsMiss ==
    IsPass =>
        \A s \in last.valid : last.pre_cache[s].content = <<>> => s \in last.fetched

\* C9 (as claimed): in a region-grouped pass a source fetched in vain gets
\* exactly one failure row with a reason, no cache write, no stored row, no
\* item in its region and is not counted as successful.
FailureFrame(s) ==
    /\ \A k \in NewLogRows(s) :
           logs[k].status = "error" /\ logs[k].error_message # ""
    /\ cache[s] = last.pre_cache[s]
    /\ {store[k] : k \in RowsOfSource(store, s)}
           = {last.pre_store[k] : k \in RowsOfSource(last.pre_store, s)}
    /\ \A r \in DOMAIN last.live :
           \A i \in DOMAIN last.live[r] : last.live[r][i].source # s
    /\ last.successful
           <= Cardinality(last.valid) + Cardinality(last.fetched \ FailedSources)

C9_FailureRecordedOnce ==
    last.op = "region" =>
        \A s \in FailedSources :
            FailureFrame(s) /\ Cardinality(NewLogRows(s)) = 1

\* C9 (amended): as above, with at most one failure row, and exactly one when
\* the store accepts the write.
C9_FailureFrame ==
    last.op = "region" =>
        \A s \in FailedSources :
            /\ FailureFrame(s)
            /\ Cardinality(NewLogRows(s)) <= 1
            /\ last.mode = "ok" => Cardinality(NewLogRows(s)) = 1

C9_Witness ==
    /\ RegionDone
    /\ last.mode = "ok"
    /\ \E s \in FailedSources : Cardinality(NewLogRows(s)) = 1
    /\ \E s \in last.fetched : s \notin FailedSources

\* C10: a region-grouped pass never raises, whatever fails.
C10_PassNeverRaises ==
    last.op = "region" => ~last.raised

(***************************************************************************)
(* Summarizer.                                                             *)
(***************************************************************************)
Summarized == last.op = "summarize"

\* A description as fetch_feed returns it: trimmed and not empty.
IsDescription(text) == text # <<>> /\ StripSpace(text) = text

\* C11: every description that is non-empty after trimming, one made only of
\* markup tags included, gets a non-empty summary from summarize(description, 2).
C11_SummaryNonEmpty ==
    (Summarized /\ last.num_sentences = 2 /\ IsDescription(last.text))
        => last.summary # <<>>

\* C12: a text whose tag-stripped form splits into at most max_sentences
\* sentences is returned tag-stripped and otherwise verbatim; the empty text
\* gives the empty summary.
C12_ShortTextVerbatim ==
    Summarized =>
        /\ Len(split_sentences(clean_html_tags(last.text))) <= last.num_sentences
               => last.summary = clean_html_tags(last.text)
        /\ last.text = <<>> => last.summary = <<>>

\* Exactly max_sentences sentences, separated by more than one blank: joining
\* them again would not give the text back.
C12_Witness ==
    /\ Summarized
    /\ last.num_sentences = 2
    /\ last.text = <<"a", ".", " ", " ", "a", " ", "b", ".">>
    /\ last.summary = last.text


\* The positions of the sentences the last summary selected.
SelectedSet == {last.selected[k] : k \in DOMAIN last.selected}

\* A text longer than the limit of the last summary.
LongText == Summarized /\ Len(sentences_of(last.text)) > last.num_sentences

\* C13: with more than max_sentences sentences, the selected sentences are
\* exactly the max_sentences of highest score, a tie going to the sentence
\* that comes first; a sentence without a word scores 0.
C13_TopByScore ==
    LongText =>
        LET score == scores_of(last.text)
            n == Len(sentences_of(last.text))
        IN  /\ Cardinality(SelectedSet) = last.num_sentences
            /\ Len(last.selected) = last.num_sentences
            /\ \A i \in SelectedSet : \A j \in (1..n) \ SelectedSet :
                   score[i] > score[j] \/ (score[i] = score[j] /\ i < j)
            /\ \A i \in 1..n :
                   find_words(sentences_of(last.text)[i]) = <<>> => score[i] = 0

\* A tie decides the selection, and a sentence without a word is left out.
C13_Witness ==
    /\ LongText
    /\ LET score == scores_of(last.text)
           n == Len(sentences_of(last.text))
       IN  /\ \E i \in SelectedSet : \E j \in (1..n) \ SelectedSet :
                  score[i] = score[j] /\ score[i] > 0
           /\ \E j \in (1..n) \ SelectedSet :
                  find_words(sentences_of(last.text)[j]) = <<>>

\* The selected positions in increasing order.
RECURSIVE Ascending(_, _)
Ascending(S, k) ==
    IF S = {} THEN <<>>
    ELSE IF k \in S THEN <<k>> \o Ascending(S \ {k}, k + 1)
    ELSE Ascending(S, k + 1)

\* C14: the summary is the selected sentences in the order they have in the
\* text, joined by single spaces, also when a sentence occurs more than once.
C14_OriginalOrder ==
    LongText =>
        last.summary =
            StripSpace(JoinSpace(sentences_of(last.text), Ascending(SelectedSet, 1), 1))

(***************************************************************************)
(* Feed fetcher.                                                           *)
(***************************************************************************)
Fetched == last.op = "fetch"

\* An element that is there and whose text is not empty after trimming.
HasValue(el) == el.present /\ el.has_text /\ StripSpace(el.text) # <<>>

WellFormed(item) ==
    HasValue(item.title) /\ HasValue(item.link) /\ HasValue(item.description)

\* The request answered with a success status and a feed with a channel.
GotChannel ==
    /\ last.response.kind = "http"
    /\ last.response.status < 400
    /\ last.response.body.xml = "tree"
    /\ last.response.body.channel

\* C15: fetch never raises, and gives the empty sequence for a transport
\* failure, a timeout, a non-success status, a malformed payload, a payload
\* without a channel and a channel without a well-formed item.
C15_FetchNeverRaises ==
    Fetched =>
        /\ ~last.raised
        /\ (~GotChannel
             \/ \A k \in DOMAIN last.response.body.items :
                   ~WellFormed(last.response.body.items[k]))
              => last.items = <<>>

\* C16: fetch returns exactly the well-formed items of the channel, in feed
\* order and trimmed; an item lacking a title, link or description (absent,
\* empty or blank) is skipped and the other items are kept.
C16_WellFormedItems ==
    (Fetched /\ GotChannel) =>
        LET good == SelectSeq(last.response.body.items, WellFormed)
        IN  /\ last.items =
                  [k \in 1..Len(good) |->
                      [title |-> StripSpace(good[k].title.text),
                       link |-> StripSpace(good[k].link.text),
                       description |-> StripSpace(good[k].description.text)]]
            /\ \A k \in DOMAIN last.items :
                  /\ StripSpace(last.items[k].title) # <<>>
                  /\ StripSpace(last.items[k].link) # <<>>
                  /\ StripSpace(last.items[k].description) # <<>>

\* A well-formed item is returned although the item before it was skipped.
C16_Witness ==
    /\ Fetched
    /\ GotChannel
    /\ Len(last.response.body.items) = 2
    /\ ~WellFormed(last.response.body.items[1])
    /\ WellFormed(last.response.body.items[2])
    /\ Len(last.items) = 1

(***************************************************************************)
(* Maintenance, queries and monitoring.                                    *)
(***************************************************************************)
RowSet(rows) == {rows[k] : k \in DOMAIN rows}

CleanupDone == last.op = "cleanup"

\* The request before the last one happened at the same instant, so the
\* age of a row is read from the clock of the state.
OlderThan(row, days) == row.fetch_date < now - days * SECONDS_PER_DAY

\* C17: cleanup(days) with days outside [1, 365] is rejected as a client
\* error and deletes nothing; rows are deleted only for days in [1, 365].
C17_CleanupRange ==
    CleanupDone =>
        /\ last.days \notin 1..365 => (last.code = 400 /\ store = last.pre_store)
        /\ last.days \in 1..365 => last.code # 400
        /\ store # last.pre_store => last.days \in 1..365

\* Zero days is rejected although every stored row is older than now.
C17_Witness ==
    /\ CleanupDone
    /\ last.days = 0
    /\ last.mode = "ok"
    /\ last.pre_store # <<>>
    /\ \A k \in DOMAIN last.pre_store : OlderThan(last.pre_store[k], 0)
    /\ last.code = 400
    /\ store = last.pre_store

\* The effect the purge has when it is carried out.
PurgeEffect ==
    /\ store = SelectSeq(last.pre_store, LAMBDA row : ~OlderThan(row, last.days))
    /\ last.deleted_count = Len(last.pre_store) - Len(store)

\* C18: purge_older_than(days) deletes exactly the rows whose fetch_date is
\* older than now - days, returns the number of rows it deleted and leaves
\* every other row as it was.
C18_PurgeExact ==
    (CleanupDone /\ last.code = 200) => PurgeEffect

\* C18 with the store's failures: the purge has that effect when the store
\* carries the statement out; when the store cannot be opened or the
\* statement fails, no row is deleted and 0 is returned.
C18_PurgeOrNothing ==
    (CleanupDone /\ last.code = 200) =>
        IF last.mode = "ok" THEN PurgeEffect
        ELSE store = last.pre_store /\ last.deleted_count = 0

\* A purge that deletes one row and keeps the row that is exactly days old.
C18_Witness ==
    /\ CleanupDone /\ last.code = 200 /\ last.mode = "ok"
    /\ last.deleted_count = 1
    /\ Len(last.pre_store) = 2
    /\ Len(store) = 1
    /\ store[1].fetch_date = now - last.days * SECONDS_PER_DAY

Queried == last.op \in {"query_by_region", "query_all_by_region"}

\* The rows the last query returned.
ReturnedRows ==
    IF last.op = "query_by_region" THEN RowSet(last.rows)
    ELSE UNION {RowSet(last.by_region[r]) : r \in DOMAIN last.by_region}

\* C19: query_by_region and query_all_by_region return only stored rows
\* with fetch_date newer than now - window and leave the stored rows
\* unchanged; no operation but the purge removes a row.
C19_QueriesReadOnly ==
    /\ Queried =>
          /\ store = last.pre_store
          /\ ReturnedRows \subseteq RowSet(store)
          /\ \A row \in ReturnedRows :
                row.fetch_date > now - last.hours_back * SECONDS_PER_HOUR
    /\ last.op \notin {"none", "cleanup"} => RowSet(last.pre_store) \subseteq RowSet(store)

\* A query over a store with a row exactly on the cutoff and a newer row:
\* only the newer one is returned and both stay stored.
C19_Witness ==
    /\ last.op = "query_by_region"
    /\ last.mode = "ok"
    /\ Len(last.rows) = 1
    /\ \E row \in RowSet(store) :
          /\ row.region = last.region
          /\ row.fetch_date = now - last.hours_back * SECONDS_PER_HOUR
    /\ store = last.pre_store

\* C20: health reports unhealthy whenever an exception occurs while the
\* store's statistics are gathered, and healthy only when they were
\* gathered without an error.
C20_HealthReflectsStore ==
    last.op = "health" =>
        /\ last.mode # "ok" => last.response.status = "unhealthy"
        /\ last.response.status = "healthy" => last.mode = "ok"

(***************************************************************************)
(* Single-region request.                                                  *)
(***************************************************************************)
\* The handler answered from the result of a pass that returned.
SingleDone == last.op = "single" /\ ~last.raised

\* C21: fetch-single-region(name) gives not-found exactly when name is not a
\* key of the region-grouped result, and otherwise gives the region, its
\* news and their number; a configured region without items gives count 0.
C21_SingleRegion ==
    SingleDone =>
        /\ last.response.code = 404 <=> last.region_name \notin DOMAIN last.news_by_region
        /\ last.region_name \in DOMAIN last.news_by_region =>
              /\ last.response.code = 200
              /\ last.response.region = last.region_name
              /\ last.response.news = last.news_by_region[last.region_name]
              /\ last.response.count = Len(last.response.news)

\* A configured region whose sources all failed while the other region's
\* sources kept the success rate up: no item, and no not-found.
C21_Witness ==
    /\ SingleDone
    /\ last.region_name = "US"
    /\ last.news_by_region["US"] = <<>>
    /\ last.response.code = 200
    /\ last.response.count = 0

(***************************************************************************)
(* Flat aggregation.                                                       *)
(***************************************************************************)
\* What a flat pass at time t returns from source k on, read from the cache
\* entries c and the feeds alone.
RECURSIVE FlatExpected(_, _, _, _)
FlatExpected(c, feeds, t, k) ==
    IF k > Len(FEED_SOURCES) THEN <<>>
    ELSE LET name == FEED_SOURCES[k]
             f == feeds[name]
             n == Min(Len(f), MAX_ITEMS_PER_SOURCE)
         IN  (IF c[name].exists /\ t - c[name].mtime < CACHE_DURATION
              THEN c[name].content
              ELSE [i \in 1..n |->
                       [source |-> name, title |-> f[i].title, link |-> f[i].link,
                        summary |-> summarize_text(f[i].description, 2)]])
             \o FlatExpected(c, feeds, t, k + 1)

\* C22: a flat pass changes nothing but the cache: the stored articles, the
\* audit log and the source counters stay as they were, and what it returns
\* is decided by the cache entries and the feeds alone, never by the store
\* or the sample data.
C22_FlatFrame ==
    [][last'.op = "flat" =>
          /\ store' = store
          /\ logs' = logs
          /\ stats' = stats
          /\ last'.result = FlatExpected(cache, last'.feeds, now, 1)]_vars

\* A flat pass that returns nothing although the store holds articles.
C22_Witness ==
    /\ last.op = "flat"
    /\ last.result = <<>>
    /\ store # <<>>
    /\ logs # <<>>

(***************************************************************************)
(* Shape of the items.                                                     *)
(***************************************************************************)
\* The items of the last region-grouped result, region by region.
ResultItems ==
    UNION {{last.result[r][i] : i \in DOMAIN last.result[r]} : r \in DOMAIN last.result}

FlatFields == {"source", "title", "link", "summary"}

RegionFields == FlatFields \cup {"region", "flag"}

Recorded == last.op = "record"

LogRowsOf(rows, s) == {k \in DOMAIN rows : rows[k].source_name = s}

ErrorRowsOf(rows, s) == {k \in LogRowsOf(rows, s) : rows[k].status = "error"}

\* For every source the attempt counter is the number of its log rows and
\* the error counter the number of its error rows.
CountersMatchLog ==
    \A s \in Sources :
        /\ stats[s].fetch_count = Cardinality(LogRowsOf(logs, s))
        /\ stats[s].error_count = Cardinality(ErrorRowsOf(logs, s))

\* The last call appended one row for its source and moved its counters.
OneRowAppended ==
    /\ Len(logs) = Len(last.pre_logs) + 1
    /\ logs[Len(logs)].source_name = last.source_name
    /\ logs[Len(logs)].status = (IF last.success THEN "success" ELSE "error")
    /\ stats[last.source_name].fetch_count =
          last.pre_stats[last.source_name].fetch_count + 1
    /\ stats[last.source_name].error_count =
          last.pre_stats[last.source_name].error_count + (IF last.success THEN 0 ELSE 1)
    /\ \A s \in Sources \ {last.source_name} : stats[s] = last.pre_stats[s]

\* The rows that were there are still there, unchanged.
LogKept == SubSeq(logs, 1, Len(last.pre_logs)) = last.pre_logs

\* C24: record_source_outcome appends exactly one audit log row for the
\* source and updates its counters (attempts +1, errors +1 exactly on
\* failure); so the counters always equal the numbers of log rows, and
\* existing log rows are never modified.
C24_OneRowPerCall ==
    /\ CountersMatchLog
    /\ Recorded => (OneRowAppended /\ LogKept)

\* C24 with the store's failures: the call appends one row and updates the
\* counters when the store carries the statements out, and changes neither
\* when the store cannot be opened or a statement fails; the counters always
\* equal the numbers of log rows, and existing rows are never modified.
C24_OneRowOrNothing ==
    /\ CountersMatchLog
    /\ Recorded =>
          /\ LogKept
          /\ IF last.mode = "ok" THEN OneRowAppended
             ELSE logs = last.pre_logs /\ stats = last.pre_stats

\* A success recorded for a source that already has an error row.
C24_Witness ==
    /\ Recorded
    /\ last.mode = "ok"
    /\ last.success
    /\ ErrorRowsOf(last.pre_logs, last.source_name) # {}
    /\ stats[last.source_name].fetch_count = 2
    /\ stats[last.source_name].error_count = 1

(***************************************************************************)
(* Store tier and sample tier.                                             *)
(***************************************************************************)
\* A region-grouped pass that returned with a success rate below 0.3.
Degraded == RegionDone /\ 10 * last.successful < 3 * total_sources

\* The stored rows of a region from the last 24 hours, newest first, capped
\* to MAX_ITEMS_PER_SOURCE, in the format of the API.
StoreContent(r) ==
    LET recent == {k \in DOMAIN store :
                     store[k].region = r /\ store[k].fetch_date > now - HOURS_24}
        rows == Take(OrderRows(store, recent), MAX_ITEMS_PER_SOURCE)
    IN  [i \in 1..Len(rows) |-> FormatArticle(rows[i])]

\* The store tier with content[r] as the store's data for region r.
StoreTier(content) ==
    /\ DOMAIN last.merged = Regions
    /\ \A r \in Regions :
          last.merged[r] = IF Len(last.live[r]) < 2 /\ content[r] # <<>>
                           THEN content[r] ELSE last.live[r]

\* C25: below a success rate of 0.3, each region with fewer than 2 in-memory
\* items is replaced by the store's 24-hour content for it, capped to 5,
\* if the store has data for that region; a region with at least 2 items and
\* a region the store has no data for keep their in-memory result.
C25_StoreTier ==
    Degraded => StoreTier([r \in Regions |-> StoreContent(r)])

\* What the store's query gives the last pass: nothing when its statements
\* fail.
QueriedContent(r) ==
    IF last.mode = "exec_error" THEN <<>> ELSE StoreContent(r)

\* C25 with the store's failures: the same, the store's data for a region
\* being what the 24-hour query returns, which is nothing when the query
\* fails.
C25_StoreTierQueried ==
    Degraded => StoreTier([r \in Regions |-> QueriedContent(r)])

\* A sparse region takes the store's version while a region with at least
\* 2 items keeps its own although the store has data for it.
C25_Witness ==
    /\ Degraded
    /\ \E r \in Regions :
          Len(last.live[r]) < 2 /\ last.merged[r] = StoreContent(r)
                                /\ last.merged[r] # last.live[r]
    /\ \E r \in Regions :
          Len(last.live[r]) >= 2 /\ StoreContent(r) # <<>>
                                 /\ last.merged[r] = last.live[r]

C26_WitnessFull ==
    /\ Degraded
    /\ TotalItems(last.merged) = 10
    /\ ~last.used_sample

\* A pass that returned a result.
PassDone == IsPass /\ (last.op = "region" => ~last.raised)

\* A cached item as a region-grouped pass stamps it for the source's region.
Stamped(src, item) ==
    [region |-> src.region, flag |-> src.flag, source |-> item.source,
     title |-> item.title, link |-> item.link, summary |-> item.summary]

\* The pass returns, for the source, every item of its cache entry as it was
\* when the pass began; news is the grouping looked at in a region-grouped pass.
ReturnsCached(src, news) ==
    LET c == last.pre_cache[src.name].content
    IN  \A i \in DOMAIN c :
            IF last.op = "region"
            THEN \E j \in DOMAIN news[src.region] :
                     news[src.region][j] = Stamped(src, c[i])
            ELSE \E j \in DOMAIN last.result : last.result[j] = c[i]

\* The pass leaves the cache entry, the stored rows and the outcome log of the
\* source as they were.
NothingWrittenFor(s) ==
    /\ cache[s] = last.pre_cache[s]
    /\ last.op = "region" =>
          /\ NewLogRows(s) = {}
          /\ {store[k] : k \in RowsOfSource(store, s)}
                 = {last.pre_store[k] : k \in RowsOfSource(last.pre_store, s)}

\* The sources the pass reached whose cache entry holds the items of a
\* successful fetch.
SavedSources ==
    {k \in DOMAIN SourceList :
        /\ SourceList[k].name \in last.valid \cup last.fetched
        /\ last.pre_cache[SourceList[k].name].exists
        /\ last.pre_cache[SourceList[k].name].content # <<>>}

ReuseWithinTTL(news) ==
    PassDone =>
        \A k \in SavedSources :
            LET src == SourceList[k]
            IN  IF CacheAge(src.name) < CACHE_DURATION
                THEN /\ src.name \notin last.fetched
                     /\ ReturnsCached(src, news)
                     /\ NothingWrittenFor(src.name)
                     /\ last.op = "region" =>
                           last.successful >= Cardinality(last.valid)
                ELSE src.name \in last.fetched

\* C27: a pass that reaches, before T + CACHE_DURATION, a source fetched with
\* success at T does not fetch it, returns the items saved at T (stamped with
\* region and flag in a region-grouped pass), counts it as successful and
\* writes neither the store nor the cache for it; at or after
\* T + CACHE_DURATION the pass fetches it again.
C27_ReuseWithinTTL == ReuseWithinTTL(last.result)

\* The same with the lists the loop over the sources built, before the
\* fallback tiers.
C27_ReuseBeforeFallback == ReuseWithinTTL(last.live)

\* The cache entry a region-grouped pass writes for a source from its feed.
FreshEntry(s) ==
    LET f == last.feeds[s]
        n == Min(Len(f), MAX_ITEMS_PER_SOURCE)
    IN  [exists |-> TRUE, mtime |-> now,
         content |-> [i \in 1..n |->
                        [source |-> s, title |-> f[i].title, link |-> f[i].link,
                         summary |-> summarize_text(f[i].description, 2)]]]

\* The sources the last pass fetched with at least one item.
SucceededSources == {s \in last.fetched : last.feeds[s] # <<>>}

\* C28: after a region-grouped pass has fetched a source with success, the
\* cache entry of the source is exactly the fresh batch, in feed order, with
\* only source, title, link and summary, and no cache entry has more than
\* MAX_ITEMS_PER_SOURCE items.
C28_CacheOverwritten ==
    /\ last.op = "region" => \A s \in SucceededSources : cache[s] = FreshEntry(s)
    /\ \A s \in Sources : Len(cache[s].content) <= MAX_ITEMS_PER_SOURCE

\* The same for the passes that returned.
C28_CacheOverwrittenOnReturn ==
    /\ RegionDone => \A s \in SucceededSources : cache[s] = FreshEntry(s)
    /\ \A s \in Sources : Len(cache[s].content) <= MAX_ITEMS_PER_SOURCE

\* The number of rows the last pass added to the store for a source.
InsertedFor(s) ==
    Cardinality(RowsOfSource(store, s)) - Cardinality(RowsOfSource(last.pre_store, s))

\* Every item of the fresh batch of the source has its row in the store.
BatchStored(s) ==
    \A i \in DOMAIN FreshEntry(s).content :
        LET it == FreshEntry(s).content[i]
        IN  <<it.title, it.link, s>> \in Triples(store)

\* Exactly one outcome row for the source: success with the inserted count.
OneSuccessOutcome(s) ==
    \E k \in NewLogRows(s) :
        /\ NewLogRows(s) = {k}
        /\ logs[k].status = "success"
        /\ logs[k].articles_count = InsertedFor(s)

\* The pass returned and news holds the fresh batch of the source, stamped.
ReturnsFresh(src, news) ==
    /\ ~last.raised
    /\ \A i \in DOMAIN FreshEntry(src.name).content :
           \E j \in DOMAIN news[src.region] :
               news[src.region][j] = Stamped(src, FreshEntry(src.name).content[i])

SuccessfulFetch(news, modes) ==
    (last.op = "region" /\ last.mode \in modes) =>
        \A k \in DOMAIN SourceList :
            LET src == SourceList[k]
            IN  src.name \in SucceededSources =>
                    /\ BatchStored(src.name)
                    /\ OneSuccessOutcome(src.name)
                    /\ InsertedFor(src.name) = 0 =>
                          /\ cache[src.name] = FreshEntry(src.name)
                          /\ ReturnsFresh(src, news)
                          /\ last.successful =
                                Cardinality(last.valid) + Cardinality(SucceededSources)

\* C29: a region-grouped pass that fetches a source with success submits the
\* items to the store and records exactly one outcome for the source, success
\* with the number of rows inserted; when that number is 0 the source still
\* counts as successful and its items are cached and returned.  Stated for
\* the passes in which the store works.
C29_SuccessRecorded == SuccessfulFetch(last.result, {"ok"})

\* The same whatever the store does.
C29_SuccessRecordedAnyStore == SuccessfulFetch(last.result, DbModes)

\* The same while the store works, with the lists the loop over the sources
\* built, before the fallback tiers.
C29_SuccessRecordedBeforeFallback == SuccessfulFetch(last.live, {"ok"})

\* C30: every pass ends having visited each configured source exactly once,
\* a visit being either the use of the valid cache entry or one fetch.
C30_EverySourceVisited ==
    IsPass =>
        /\ last.valid \cup last.fetched = Sources
        /\ last.valid \cap last.fetched = {}

\* The same for the passes that returned.
C30_EverySourceVisitedOnReturn ==
    PassDone =>
        /\ last.valid \cup last.fetched = Sources
        /\ last.valid \cap last.fetched = {}

\* C31: with two passes running at once, a pass that takes the cache entry of
\* a source as valid while the other pass is saving a non-empty batch for it
\* loads a non-empty content.
C31_AtomicCacheWrite ==
    \A p \in Threads :
        (threads[p].valid /\ threads[p].observed /\ threads[p].during_save)
            => threads[p].loaded # <<>>

\* C32: the keys of the result of a region-grouped pass are exactly the
\* configured regions, whichever fallback tier is engaged.
C32_ConfiguredKeys ==
    RegionDone => DOMAIN last.result = Regions

\* The same for the passes that do not reach the sample tier.
C32_ConfiguredKeysWithoutSample ==
    (RegionDone /\ ~last.used_sample) => DOMAIN last.result = Regions

\* C33: a region-grouped pass returns at most MAX_ITEMS_PER_REGION items for
\* each region, whatever the fetches and the caches give.
C33_RegionCap ==
    (last.op = "wide" /\ ~last.raised) =>
        \A r \in DOMAIN last.result : Len(last.result[r]) <= MAX_ITEMS_PER_REGION

\* What bounds a region instead: MAX_ITEMS_PER_SOURCE items for each of its
\* sources.
C33_SourceCapOnly ==
    (last.op = "wide" /\ ~last.raised) =>
        \A r \in DOMAIN last.result :
            Len(last.result[r]) <= MAX_ITEMS_PER_SOURCE * wide_total_sources

\* The store key of an article.
KeyOf(a) == generate_article_hash(a.title, a.link, a.source)

\* C34: two submitted articles whose (title, link, source) triples differ have
\* different store keys, and after the insertion the store holds a row for
\* each of the two triples.
C34_KeyDistinguishes ==
    (last.op = "insert" /\ last.mode = "ok") =>
        \A i, j \in DOMAIN last.batch :
            Triple(last.batch[i]) # Triple(last.batch[j]) =>
                /\ KeyOf(last.batch[i]) # KeyOf(last.batch[j])
                /\ Triple(last.batch[i]) \in Triples(store)
                /\ Triple(last.batch[j]) \in Triples(store)

====
